---- MODULE Spec2Model ----
(***************************************************************************)
(* Model of DisassemblerScripts/ida_dump_xrefs.py: the name normaliser     *)
(* clean_demangled, the namespace/marker filter, the caller collection and *)
(* the module-level loop that fills xref_data and dumps it as JSON.        *)
(*                                                                         *)
(* A Python str is modelled as the sequence of the code points of its      *)
(* characters, so that find/rfind, slicing, the regular expressions and    *)
(* the sort are computed character by character as the interpreter         *)
(* computes them, for every character a str can hold.                      *)
(***************************************************************************)
EXTENDS Integers, Sequences, FiniteSets, TLC

(***************************************************************************)
(* Bounds of the model.                                                    *)
(***************************************************************************)
\* number of functions Functions() enumerates in the analysed database
NumFuncs == 2
\* an input of the normaliser harness is a concatenation of at most
\* MaxFrags fragments of Fragments
MaxFrags == 3

\* src line 9: DEMANGLER = 3 (MSVC); passed unchanged to every demangle_name
DEMANGLER == 3

(***************************************************************************)
(* Python str primitives.                                                  *)
(***************************************************************************)
\* the code points of the characters the code names
Space == 32

LineFeed == 10

Ampersand == 38

Colon == 58

\* the code points the class \s of a str pattern matches: the characters c
\* with c.isspace(), which are \t \n \v \f \r, U+001C .. U+001F, the space,
\* U+0085, U+00A0, U+1680, U+2000 .. U+200A, U+2028, U+2029, U+202F, U+205F
\* and U+3000
Whitespace ==
    (9..13) \cup (28..32) \cup {133, 160, 5760} \cup (8192..8202)
        \cup {8232, 8233, 8239, 8287, 12288}

\* s[k-1 : k-1+len(sub)] == sub, for a 1-based position k
OccursAt(s, sub, k) ==
    /\ k >= 1
    /\ k + Len(sub) - 1 <= Len(s)
    /\ \A j \in 1..Len(sub) : s[k + j - 1] = sub[j]

\* str.find(sub): the lowest 0-based index of sub in s, or -1
Find(s, sub) ==
    LET hits == {k \in 1..(Len(s) + 1) : OccursAt(s, sub, k)}
    IN  IF hits = {} THEN -1
        ELSE (CHOOSE k \in hits : \A h \in hits : k <= h) - 1

\* str.rfind(sub): the highest 0-based index of sub in s, or -1
RFind(s, sub) ==
    LET hits == {k \in 1..(Len(s) + 1) : OccursAt(s, sub, k)}
    IN  IF hits = {} THEN -1
        ELSE (CHOOSE k \in hits : \A h \in hits : k >= h) - 1

\* the slice s[:n] for 0 <= n <= len(s)
SliceTo(s, n) == SubSeq(s, 1, n)

\* the slice s[n:] for 0 <= n <= len(s)
SliceFrom(s, n) == SubSeq(s, n + 1, Len(s))

\* sub in s
Contains(s, sub) == Find(s, sub) # -1

\* s.startswith(p)
StartsWith(s, p) == OccursAt(s, p, 1)

\* s.replace(old, new) for a one-character old
RECURSIVE ReplaceChar(_, _, _)
ReplaceChar(s, old, new) ==
    IF s = <<>> THEN <<>>
    ELSE (IF Head(s) = old THEN new ELSE <<Head(s)>>)
         \o ReplaceChar(Tail(s), old, new)

\* line 21, the re.search for TryGet, then any characters except a line
\* feed (the dot of a pattern compiled without DOTALL), then Array
ReSearchTryGetArray(s) ==
    \E a \in 1..Len(s) : \E b \in 1..Len(s) :
        /\ OccursAt(s, <<84, 114, 121, 71, 101, 116>> (* TryGet *), a)
        /\ b >= a + 6
        /\ OccursAt(s, <<65, 114, 114, 97, 121>> (* Array *), b)
        /\ \A j \in (a + 6)..(b - 1) : s[j] # LineFeed

\* re.sub(r'\s+', '', s): every run of whitespace is deleted
ReSubWhitespace(s) == SelectSeq(s, LAMBDA c : c \notin Whitespace)

\* s.replace(" ", ""): only the space character is deleted
ReplaceSpacesOnly(s) == SelectSeq(s, LAMBDA c : c # Space)

(***************************************************************************)
(* clean_demangled, lines 13-25.                                           *)
(***************************************************************************)
\* lines 14-19 with the first space of the prefix taken instead of the last
TruncatePrefixAtFirstSpace(name) ==
    LET first_colon == Find(name, <<58, 58>> (* :: *))
        prefix == SliceTo(name, first_colon)
        first_space == Find(prefix, <<32>> (* a space *))
    IN  IF first_colon # -1 /\ first_space # -1
        THEN SliceFrom(name, first_space + 1)
        ELSE name

\* lines 14-19: cut the return type in front of the first "::"
TruncatePrefix(name) ==
    LET first_colon == Find(name, <<58, 58>> (* :: *))
        prefix == IF first_colon # -1 THEN SliceTo(name, first_colon) ELSE <<>>
        last_space == RFind(prefix, <<32>> (* a space *))
    IN  IF first_colon # -1 /\ last_space # -1
        THEN SliceFrom(name, last_space + 1)
        ELSE name

\* lines 21-22 without the condition of line 21
DisambiguateAlways(name) == ReplaceChar(name, Ampersand, <<91, 93, 38>> (* []& *))

\* lines 21-22: '&' becomes "[]&" in a TryGet...Array name
DisambiguateArray(name) ==
    IF ReSearchTryGetArray(name)
    THEN ReplaceChar(name, Ampersand, <<91, 93, 38>> (* []& *))
    ELSE name

\* line 24
RemoveWhitespace(name) == ReSubWhitespace(name)

\* lines 13-25
clean_demangled(name) ==
    RemoveWhitespace(DisambiguateArray(TruncatePrefix(name)))

(***************************************************************************)
(* The namespace and marker rejection of lines 52-64.                      *)
(***************************************************************************)
\* the tuple of lines 55-60
NamespacePrefixes == {
    <<85, 110, 105, 116, 121, 69, 110, 103, 105, 110, 101, 58, 58>> (* UnityEngine:: *), <<85, 110, 105, 116, 121, 58, 58>> (* Unity:: *), <<85, 110, 105, 116, 121, 69, 110, 103, 105, 110, 101, 73, 110, 116, 101, 114, 110, 97, 108, 58, 58>> (* UnityEngineInternal:: *),
    <<77, 105, 99, 114, 111, 115, 111, 102, 116, 58, 58, 86, 105, 115, 117, 97, 108, 66, 97, 115, 105, 99>> (* Microsoft::VisualBasic *), <<83, 121, 115, 116, 101, 109, 58, 58>> (* System:: *), <<77, 111, 110, 111, 58, 58>> (* Mono:: *), <<77, 83, 58, 58, 73, 110, 116, 101, 114, 110, 97, 108>> (* MS::Internal *),
    <<77, 105, 99, 114, 111, 115, 111, 102, 116, 58, 58, 87, 105, 110, 51, 50>> (* Microsoft::Win32 *), <<73, 110, 116, 101, 114, 111, 112, 58, 58>> (* Interop:: *), <<69, 112, 105, 99, 58, 58>> (* Epic:: *), <<83, 101, 110, 116, 114, 121, 58, 58>> (* Sentry:: *),
    <<83, 116, 101, 97, 109, 119, 111, 114, 107, 115, 58, 58>> (* Steamworks:: *), <<78, 101, 119, 116, 111, 110, 115, 111, 102, 116, 58, 58, 74, 115, 111, 110, 58>> (* Newtonsoft::Json: *), <<84, 77, 80, 114, 111, 58, 58>> (* TMPro:: *),
    <<69, 112, 105, 99, 58, 58, 79, 110, 108, 105, 110, 101, 83, 101, 114, 118, 105, 99, 101, 115>> (* Epic::OnlineServices *), <<80, 111, 108, 121, 102, 105, 108, 108, 69, 120, 116, 101, 110, 115, 105, 111, 110, 115, 58, 58>> (* PolyfillExtensions:: *),
    <<77, 105, 99, 114, 111, 115, 111, 102, 116, 58, 58, 67, 83, 104, 97, 114, 112>> (* Microsoft::CSharp *), <<73, 110, 116, 101, 114, 110, 97, 108, 58, 58>> (* Internal:: *), <<73, 110, 116, 101, 114, 111, 112, 95, 83, 115, 112, 105, 67, 108, 105, 58, 58>> (* Interop_SspiCli:: *),
    <<115, 116, 100, 58, 58>> (* std:: *), <<110, 97, 109, 101, 115, 112, 97, 99, 101, 39, 58, 58>> (* namespace':: *) }

\* the tuple of line 64
SubstringMarkers == {
    <<95, 95, 102, 97, 115, 116, 99, 97, 108, 108>> (* __fastcall *), <<95, 95, 99, 100, 101, 99, 108>> (* __cdecl *), <<95, 95, 99, 114, 116>> (* __crt *), <<115, 116, 100, 99, 97, 108, 108>> (* stdcall *), <<95, 108, 97, 109, 98, 100, 97, 95>> (* _lambda_ *),
    <<95, 101, 120, 112, 97, 110, 100, 108, 111, 99, 97, 108, 101, 95>> (* _expandlocale_ *) }

\* line 54: any(demangled.startswith(p) for p in (...))
IsRejectedNamespace(demangled) ==
    \E p \in NamespacePrefixes : StartsWith(demangled, p)

\* line 64: any(p in demangled for p in (...))
IsRejectedMarker(demangled) ==
    \E p \in SubstringMarkers : Contains(demangled, p)

(***************************************************************************)
(* sorted() on a list of str, and the record of lines 66-69.               *)
(***************************************************************************)
\* a < b for two str: code point order, a proper prefix first
StrLess(a, b) ==
    \E k \in 1..(Len(b)) :
        /\ k <= Len(a) + 1
        /\ \A j \in 1..(k - 1) : a[j] = b[j]
        /\ \/ k = Len(a) + 1
           \/ a[k] < b[k]

\* x put into the sorted list xs after every element that is not greater
RECURSIVE InsertSorted(_, _)
InsertSorted(x, xs) ==
    IF xs = <<>> THEN <<x>>
    ELSE IF StrLess(x, Head(xs)) THEN <<x>> \o xs
    ELSE <<Head(xs)>> \o InsertSorted(x, Tail(xs))

\* the list unchanged, in collection order
Unsorted(xs) == xs

\* sorted(xs)
RECURSIVE sorted(_)
sorted(xs) ==
    IF xs = <<>> THEN <<>>
    ELSE InsertSorted(xs[Len(xs)], sorted(SubSeq(xs, 1, Len(xs) - 1)))

\* the elements of xs, each kept once, in first-occurrence order
RECURSIVE Distinct(_)
Distinct(xs) ==
    IF xs = <<>> THEN <<>>
    ELSE LET rest == Distinct(SubSeq(xs, 1, Len(xs) - 1))
             x == xs[Len(xs)]
         IN  IF \E j \in 1..Len(rest) : rest[j] = x THEN rest
             ELSE Append(rest, x)

\* lines 66-69 with the count taken after a deduplication of Usages
CallRecordDeduplicated(callers) ==
    [CallCount |-> Len(callers), Usages |-> sorted(Distinct(callers))]

\* lines 66-69: the value stored under the canonical name
CallRecord(callers) ==
    [CallCount |-> Len(callers), Usages |-> sorted(callers)]

(***************************************************************************)
(* The analysis database the script reads through the IDA API.  A value    *)
(* that the API returns as "a str or None" is a record [ok, val].          *)
(***************************************************************************)
None == [ok |-> FALSE, val |-> <<>>]

Str(s) == [ok |-> TRUE, val |-> s]

\* bool(v) for a str or None: None and "" are falsy
Truthy(v) == v.ok /\ v.val # <<>>

\* one element of XrefsTo(func_ea, 0): is_code(get_full_flags(xref.frm)) and
\* demangle_name(get_func_name(xref.frm), DEMANGLER)
Xref(frm_code, caller) == [frm_code |-> frm_code, caller |-> caller]

\* one element of Functions(): what is_code, get_name, demangle_name and
\* XrefsTo answer for it, and the API call that raises for it (if any)
Func(code, mangled, demangled, xrefs, fault) ==
    [code |-> code, mangled |-> mangled, demangled |-> demangled,
     xrefs |-> xrefs, fault |-> fault]

\* the callers of A in the end-to-end scenario: B, and framework function C
XrefsBC ==
    << Xref(TRUE, Str(<<118, 111, 105, 100, 32, 71, 97, 109, 101, 58, 58, 66, 40, 118, 111, 105, 100, 41>> (* void Game::B(void) *))),
       Xref(TRUE, Str(<<118, 111, 105, 100, 32, 83, 121, 115, 116, 101, 109, 58, 58, 70, 111, 111, 40, 118, 111, 105, 100, 41>> (* void System::Foo(void) *))) >>

\* unsorted callers with a repeated caller, a data reference, a caller that
\* does not demangle and a caller that demangles to ""
XrefsDup ==
    << Xref(TRUE, Str(<<118, 111, 105, 100, 32, 71, 97, 109, 101, 58, 58, 90, 40, 118, 111, 105, 100, 41>> (* void Game::Z(void) *))),
       Xref(TRUE, Str(<<118, 111, 105, 100, 32, 71, 97, 109, 101, 58, 58, 66, 40, 118, 111, 105, 100, 41>> (* void Game::B(void) *))),
       Xref(FALSE, Str(<<118, 111, 105, 100, 32, 71, 97, 109, 101, 58, 58, 68, 40, 118, 111, 105, 100, 41>> (* void Game::D(void) *))),
       Xref(TRUE, None),
       Xref(TRUE, Str(<<118, 111, 105, 100, 32, 71, 97, 109, 101, 58, 58, 66, 40, 118, 111, 105, 100, 41>> (* void Game::B(void) *))),
       Xref(TRUE, Str(<<>>)) >>

\* callers whose names contain a rejected marker: a lambda and a __cdecl
\* function
XrefsMarker ==
    << Xref(TRUE, Str(<<118, 111, 105, 100, 32, 71, 97, 109, 101, 58, 58, 80, 108, 97, 121, 101, 114, 58, 58, 95, 108, 97, 109, 98, 100, 97, 95, 49, 40, 118, 111, 105, 100, 41>> (* void Game::Player::_lambda_1(void) *))),
       Xref(TRUE, Str(<<105, 110, 116, 32, 95, 95, 99, 100, 101, 99, 108, 32, 82, 117, 110, 40, 118, 111, 105, 100, 41>> (* int __cdecl Run(void) *))) >>

\* a single caller
XrefsOne == << Xref(TRUE, Str(<<118, 111, 105, 100, 32, 71, 97, 109, 101, 58, 58, 65, 40, 105, 110, 116, 41>> (* void Game::A(int) *))) >>

\* the function entities a database of the model is made of
EntityPool == <<
    Func(TRUE, Str(<<63, 65, 64, 71, 97, 109, 101, 64, 64, 89, 65, 88, 72, 64, 90>> (* ?A@Game@@YAXH@Z *)), Str(<<118, 111, 105, 100, 32, 71, 97, 109, 101, 58, 58, 65, 40, 105, 110, 116, 41>> (* void Game::A(int) *)), XrefsBC, "none"),
    Func(TRUE, Str(<<63, 65, 64, 71, 97, 109, 101, 64, 64, 89, 65, 88, 72, 64, 90, 95, 48>> (* ?A@Game@@YAXH@Z_0 *)), Str(<<71, 97, 109, 101, 58, 58, 65, 40, 11, 105, 110, 116, 32, 41>> (* Game::A(\vint ) *)), XrefsDup, "none"),
    Func(TRUE, Str(<<63, 66, 64, 71, 97, 109, 101, 64, 64, 89, 65, 88, 88, 90>> (* ?B@Game@@YAXXZ *)), Str(<<118, 111, 105, 100, 32, 71, 97, 109, 101, 58, 58, 66, 40, 118, 111, 105, 100, 41>> (* void Game::B(void) *)), XrefsOne, "none"),
    Func(TRUE, Str(<<63, 70, 111, 111, 64, 83, 121, 115, 116, 101, 109, 64, 64, 89, 65, 88, 88, 90>> (* ?Foo@System@@YAXXZ *)), Str(<<118, 111, 105, 100, 32, 83, 121, 115, 116, 101, 109, 58, 58, 70, 111, 111, 40, 118, 111, 105, 100, 41>> (* void System::Foo(void) *)), XrefsOne, "none"),
    Func(TRUE, Str(<<63, 82, 117, 110, 64, 64, 89, 65, 72, 88, 90>> (* ?Run@@YAHXZ *)), Str(<<105, 110, 116, 32, 95, 95, 99, 100, 101, 99, 108, 32, 82, 117, 110, 40, 118, 111, 105, 100, 41>> (* int __cdecl Run(void) *)), <<>>, "none"),
    Func(TRUE, Str(<<63, 84, 97, 107, 101, 68, 97, 109, 97, 103, 101, 64, 80, 108, 97, 121, 101, 114, 64, 71, 97, 109, 101, 64, 64, 81, 69, 65, 65, 88, 72, 64, 90>> (* ?TakeDamage@Player@Game@@QEAAXH@Z *)), Str(<<71, 97, 109, 101, 58, 58, 80, 108, 97, 121, 101, 114, 58, 58, 84, 97, 107, 101, 68, 97, 109, 97, 103, 101, 40, 105, 110, 116, 41>> (* Game::Player::TakeDamage(int) *)), XrefsMarker, "none"),
    Func(TRUE, Str(<<63, 84, 114, 121, 71, 101, 116, 86, 97, 108, 117, 101, 65, 114, 114, 97, 121, 64, 78, 83, 64, 64, 89, 65, 95, 78, 65, 69, 65, 72, 64, 90>> (* ?TryGetValueArray@NS@@YA_NAEAH@Z *)), Str(<<98, 111, 111, 108, 32, 78, 83, 58, 58, 84, 114, 121, 71, 101, 116, 86, 97, 108, 117, 101, 65, 114, 114, 97, 121, 40, 105, 110, 116, 38, 41>> (* bool NS::TryGetValueArray(int&) *)), XrefsBC, "none"),
    Func(FALSE, Str(<<63, 68, 64, 71, 97, 109, 101, 64, 64, 89, 65, 88, 88, 90>> (* ?D@Game@@YAXXZ *)), Str(<<118, 111, 105, 100, 32, 71, 97, 109, 101, 58, 58, 68, 40, 118, 111, 105, 100, 41>> (* void Game::D(void) *)), XrefsOne, "none"),
    Func(TRUE, Str(<<>>), None, <<>>, "none"),
    Func(TRUE, Str(<<71, 97, 109, 101, 58, 58, 115, 117, 98, 95, 49>> (* Game::sub_1 *)), Str(<<71, 97, 109, 101, 58, 58, 115, 117, 98, 95, 49>> (* Game::sub_1 *)), XrefsOne, "none"),
    Func(TRUE, Str(<<115, 117, 98, 95, 49, 52, 48, 48, 48, 49, 48, 48, 48>> (* sub_140001000 *)), None, XrefsOne, "none"),
    Func(TRUE, Str(<<63, 65, 64, 71, 97, 109, 101, 64, 64, 89, 65, 88, 72, 64, 90>> (* ?A@Game@@YAXH@Z *)), Str(<<118, 111, 105, 100, 32, 71, 97, 109, 101, 58, 58, 65, 40, 105, 110, 116, 41>> (* void Game::A(int) *)), XrefsBC, "is_code"),
    Func(TRUE, Str(<<63, 66, 64, 71, 97, 109, 101, 64, 64, 89, 65, 88, 88, 90>> (* ?B@Game@@YAXXZ *)), Str(<<118, 111, 105, 100, 32, 71, 97, 109, 101, 58, 58, 66, 40, 118, 111, 105, 100, 41>> (* void Game::B(void) *)), XrefsOne, "get_name"),
    Func(TRUE, Str(<<63, 66, 64, 71, 97, 109, 101, 64, 64, 89, 65, 88, 88, 90>> (* ?B@Game@@YAXXZ *)), Str(<<118, 111, 105, 100, 32, 71, 97, 109, 101, 58, 58, 66, 40, 118, 111, 105, 100, 41>> (* void Game::B(void) *)), XrefsOne, "demangle_name"),
    Func(TRUE, Str(<<63, 65, 64, 71, 97, 109, 101, 64, 64, 89, 65, 88, 72, 64, 90, 95, 48>> (* ?A@Game@@YAXH@Z_0 *)), Str(<<71, 97, 109, 101, 58, 58, 65, 40, 11, 105, 110, 116, 32, 41>> (* Game::A(\vint ) *)), XrefsDup, "XrefsTo"),
    Func(FALSE, Str(<<63, 68, 64, 71, 97, 109, 101, 64, 64, 89, 65, 88, 88, 90>> (* ?D@Game@@YAXXZ *)), Str(<<118, 111, 105, 100, 32, 71, 97, 109, 101, 58, 58, 68, 40, 118, 111, 105, 100, 41>> (* void Game::D(void) *)), XrefsOne, "XrefsTo") >>

\* the databases of the model name their functions by position in EntityPool
Entities == 1..Len(EntityPool)

\* the orders in which Functions() may enumerate the database
Orders ==
    {o \in [1..NumFuncs -> 1..NumFuncs] : \A a, b \in 1..NumFuncs : a # b => o[a] # o[b]}

\* the script is run on the same database under two enumeration orders
Runs == {1, 2}

(***************************************************************************)
(* The state of a run of the script, and of the normaliser harness.        *)
(***************************************************************************)
VARIABLES
    db,         \* the database: db[a] is the entity of the function at address a
    order,      \* order[r]: the order in which Functions() yields the addresses in run r
    idx,        \* idx[r]: position in order[r] of the next function of the for loop
    pc,         \* pc[r]: "loop" until json.dump has returned, then "done"
    xref_data,  \* xref_data[r]: the dict of line 11
    errors,     \* errors[r]: the addresses printed by the except clause, in order
    dumps,      \* dumps[r]: how many times json.dump has been called
    json_file,  \* json_file[r]: the dict json.dump wrote into xref_data.json
    raw,        \* harness: the argument of clean_demangled
    cleaned,    \* harness: clean_demangled(raw)
    recleaned,  \* harness: clean_demangled(cleaned)
    stage       \* harness: "input", "cleaned" or "recleaned" ("off" in a run of the script)

vars == <<db, order, idx, pc, xref_data, errors, dumps, json_file,
          raw, cleaned, recleaned, stage>>

scriptVars == <<db, order, idx, pc, xref_data, errors, dumps, json_file>>

harnessVars == <<raw, cleaned, recleaned, stage>>

\* an empty dict
EmptyDict == [k \in {} |-> CallRecord(<<>>)]

\* d after d[key] = value
DictSet(d, key, value) ==
    [k \in DOMAIN d \cup {key} |-> IF k = key THEN value ELSE d[k]]

\* func_ea of the current iteration of run r
func_ea(r) == order[r][idx[r]]

(***************************************************************************)
(* The body of the for loop, lines 27-73, for one function f.              *)
(***************************************************************************)
\* lines 43-50: the list callers after the loop over XrefsTo(func_ea, 0)
RECURSIVE CollectCallers(_)
CollectCallers(xrefs) ==
    IF xrefs = <<>> THEN <<>>
    ELSE LET xref == Head(xrefs)
             rest == CollectCallers(Tail(xrefs))
         IN  IF xref.frm_code /\ Truthy(xref.caller)
             THEN <<clean_demangled(xref.caller.val)>> \o rest
             ELSE rest

\* line 40: the canonical name of f (f.demangled is a str)
Canonical(f) == clean_demangled(f.demangled.val)

\* lines 54-65 with the tests made on the name as demangle_name returned it
TargetRejectedUncleaned(f) ==
    IF IsRejectedNamespace(f.demangled.val) THEN "namespace"
    ELSE IF IsRejectedMarker(f.demangled.val) THEN "marker"
    ELSE "insert"

\* lines 54-65: which continue, if any, the cleaned name of f takes
TargetRejected(f) ==
    IF IsRejectedNamespace(Canonical(f)) THEN "namespace"
    ELSE IF IsRejectedMarker(Canonical(f)) THEN "marker"
    ELSE "insert"

\* the way one iteration of the loop body ends for f: the statements of lines
\* 29-69 in order, each API call raising when f.fault names it
Outcome(f) ==
    IF f.fault = "is_code" THEN "raise"
    ELSE IF ~f.code THEN "not_code"
    ELSE IF f.fault = "get_name" THEN "raise"
    ELSE IF ~Truthy(f.mangled) \/ Contains(f.mangled.val, <<58, 58>> (* :: *)) THEN "no_name"
    ELSE IF f.fault = "demangle_name" THEN "raise"
    ELSE IF ~f.demangled.ok THEN "no_demangle"
    ELSE IF f.fault = "XrefsTo" THEN "raise"
    ELSE TargetRejected(f)

\* Outcome, Canonical and the stored record, tabulated over the entities
OutcomeOf == [e \in Entities |-> Outcome(EntityPool[e])]

CanonicalOf ==
    [e \in Entities |->
        IF EntityPool[e].demangled.ok THEN Canonical(EntityPool[e]) ELSE <<>>]

RecordOf == [e \in Entities |-> CallRecord(CollectCallers(EntityPool[e].xrefs))]

\* the for loop of run r has a function left and its iteration ends as `how`
Iteration(r, how) ==
    /\ stage = "off"
    /\ pc[r] = "loop"
    /\ idx[r] <= Len(db)
    /\ OutcomeOf[db[func_ea(r)]] = how

\* the for loop moves on to the next function with xref_data untouched
Continue(r) ==
    /\ idx' = [idx EXCEPT ![r] = @ + 1]
    /\ UNCHANGED <<db, order, pc, xref_data, dumps, json_file, harnessVars>>

\* lines 29-30: not code, continue
SkipNotCode(r) ==
    /\ Iteration(r, "not_code")
    /\ Continue(r)
    /\ UNCHANGED errors

\* lines 32-34: no name, or a name that contains "::", continue
SkipNoName(r) ==
    /\ Iteration(r, "no_name")
    /\ Continue(r)
    /\ UNCHANGED errors

\* lines 36-38: demangle_name returned None, continue
SkipNoDemangle(r) ==
    /\ Iteration(r, "no_demangle")
    /\ Continue(r)
    /\ UNCHANGED errors

\* lines 54-61: a rejected namespace, continue
SkipNamespace(r) ==
    /\ Iteration(r, "namespace")
    /\ Continue(r)
    /\ UNCHANGED errors

\* lines 64-65: a rejected marker, continue
SkipMarker(r) ==
    /\ Iteration(r, "marker")
    /\ Continue(r)
    /\ UNCHANGED errors

\* line 66 as a rebinding of xref_data to a dict with the one new entry
InsertAlone(r) ==
    /\ Iteration(r, "insert")
    /\ LET e == db[func_ea(r)]
       IN  xref_data' = [xref_data EXCEPT ![r] =
               DictSet(EmptyDict, CanonicalOf[e], RecordOf[e])]
    /\ idx' = [idx EXCEPT ![r] = @ + 1]
    /\ UNCHANGED <<db, order, pc, errors, dumps, json_file, harnessVars>>

\* lines 40-69 to the end: xref_data[demangled] = {...}
Insert(r) ==
    /\ Iteration(r, "insert")
    /\ LET e == db[func_ea(r)]
       IN  xref_data' = [xref_data EXCEPT ![r] =
               DictSet(@, CanonicalOf[e], RecordOf[e])]
    /\ idx' = [idx EXCEPT ![r] = @ + 1]
    /\ UNCHANGED <<db, order, pc, errors, dumps, json_file, harnessVars>>

\* the try statement around the whole for loop: an exception ends the loop
AbortOnException(r) ==
    /\ Iteration(r, "raise")
    /\ errors' = [errors EXCEPT ![r] = Append(@, func_ea(r))]
    /\ idx' = [idx EXCEPT ![r] = Len(db) + 1]
    /\ UNCHANGED <<db, order, pc, xref_data, dumps, json_file, harnessVars>>

\* lines 71-73: the exception of an API call is printed, the loop goes on
HandleException(r) ==
    /\ Iteration(r, "raise")
    /\ errors' = [errors EXCEPT ![r] = Append(@, func_ea(r))]
    /\ Continue(r)

\* lines 76-77 inside the for loop: a dump whenever the script is running
SerializeInLoop(r) ==
    /\ stage = "off"
    /\ pc[r] = "loop"
    /\ dumps[r] < NumFuncs + 1
    /\ dumps' = [dumps EXCEPT ![r] = @ + 1]
    /\ json_file' = [json_file EXCEPT ![r] = xref_data[r]]
    /\ pc' = [pc EXCEPT ![r] = IF idx[r] > Len(db) THEN "done" ELSE "loop"]
    /\ UNCHANGED <<db, order, idx, xref_data, errors, harnessVars>>

\* lines 76-77: after the loop, xref_data is dumped into xref_data.json
Serialize(r) ==
    /\ stage = "off"
    /\ pc[r] = "loop"
    /\ idx[r] > Len(db)
    /\ dumps' = [dumps EXCEPT ![r] = @ + 1]
    /\ json_file' = [json_file EXCEPT ![r] = xref_data[r]]
    /\ pc' = [pc EXCEPT ![r] = "done"]
    /\ UNCHANGED <<db, order, idx, xref_data, errors, harnessVars>>

\* one step of run r
RunNext(r) ==
    \/ SkipNotCode(r)
    \/ SkipNoName(r)
    \/ SkipNoDemangle(r)
    \/ SkipNamespace(r)
    \/ SkipMarker(r)
    \/ Insert(r)
    \/ HandleException(r)
    \/ Serialize(r)

\* the state before the first iteration: xref_data = {} (line 11); run 1
\* enumerates by ascending address, run 2 in any order
Init ==
    /\ db \in [1..NumFuncs -> Entities]
    /\ order \in {o \in [Runs -> Orders] : \A a \in 1..NumFuncs : o[1][a] = a}
    /\ idx = [r \in Runs |-> 1]
    /\ pc = [r \in Runs |-> "loop"]
    /\ xref_data = [r \in Runs |-> EmptyDict]
    /\ errors = [r \in Runs |-> <<>>]
    /\ dumps = [r \in Runs |-> 0]
    /\ json_file = [r \in Runs |-> EmptyDict]
    /\ raw = <<>>
    /\ cleaned = <<>>
    /\ recleaned = <<>>
    /\ stage = "off"

Next == \E r \in Runs : RunNext(r)

Spec == Init /\ [][Next]_vars

\* the interpreter keeps executing the script until it ends
FairSpec == Spec /\ \A r \in Runs : WF_vars(RunNext(r))

(***************************************************************************)
(* The harness of clean_demangled: the function applied to a str, and      *)
(* applied again to its own result.                                        *)
(***************************************************************************)
\* the pieces the inputs of the harness are concatenated from
Fragments == {
    <<32>> (* a space *), <<9>> (* \t *), <<10>> (* \n *), <<11>> (* \v *), <<8232>> (* U+2028 *), <<58, 58>> (* :: *), <<58>> (* : *), <<38>> (* & *),
    <<97>> (* a *), <<84, 114, 121>> (* Try *), <<84, 114, 121, 71, 101, 116>> (* TryGet *), <<65, 114, 114, 97, 121>> (* Array *), <<71, 101, 116, 65, 114, 114, 97, 121, 38>> (* GetArray& *), <<98, 32, 99>> (* b c *) }

\* the concatenations of at most n fragments
RECURSIVE Concats(_)
Concats(n) ==
    IF n = 0 THEN {<<>>}
    ELSE LET shorter == Concats(n - 1)
         IN  shorter \cup {f \o s : f \in Fragments, s \in shorter}

\* the two demangled names of section 8 of the specification
ExampleReturnType == <<82, 101, 116, 117, 114, 110, 84, 121, 112, 101, 32, 78, 83, 58, 58, 67, 108, 97, 115, 115, 58, 58, 77, 101, 116, 104, 111, 100, 40, 105, 110, 116, 41>> (* ReturnType NS::Class::Method(int) *)

ExampleTryGetArray == <<98, 111, 111, 108, 32, 78, 83, 58, 58, 84, 114, 121, 71, 101, 116, 86, 97, 108, 117, 101, 65, 114, 114, 97, 121, 40, 105, 110, 116, 38, 41>> (* bool NS::TryGetValueArray(int&) *)

Inputs == Concats(MaxFrags) \cup {ExampleReturnType, ExampleTryGetArray}

HarnessInit ==
    /\ raw \in Inputs
    /\ cleaned = <<>>
    /\ recleaned = <<>>
    /\ stage = "input"
    /\ db = <<>>
    /\ order = [r \in Runs |-> <<>>]
    /\ idx = [r \in Runs |-> 1]
    /\ pc = [r \in Runs |-> "loop"]
    /\ xref_data = [r \in Runs |-> EmptyDict]
    /\ errors = [r \in Runs |-> <<>>]
    /\ dumps = [r \in Runs |-> 0]
    /\ json_file = [r \in Runs |-> EmptyDict]

\* clean_demangled(raw)
Clean ==
    /\ stage = "input"
    /\ cleaned' = clean_demangled(raw)
    /\ stage' = "cleaned"
    /\ UNCHANGED <<raw, recleaned, scriptVars>>

\* clean_demangled(clean_demangled(raw))
Reclean ==
    /\ stage = "cleaned"
    /\ recleaned' = clean_demangled(cleaned)
    /\ stage' = "recleaned"
    /\ UNCHANGED <<raw, cleaned, scriptVars>>

HarnessNext == Clean \/ Reclean

NormSpec == HarnessInit /\ [][HarnessNext]_vars

(***************************************************************************)
(* Vocabulary of the properties of a run.                                  *)
(***************************************************************************)
\* the entity enumerated at position j of run r
At(r, j) == EntityPool[db[order[r][j]]]

\* the positions of order[r] whose iteration is over
Finished(r) == 1..(idx[r] - 1)

\* the finished positions of run r whose iteration reached line 66 with key k
Writers(r, k) ==
    {j \in Finished(r) :
        /\ OutcomeOf[db[order[r][j]]] = "insert"
        /\ CanonicalOf[db[order[r][j]]] = k}

\* j is the last finished position of run r that wrote key k
IsLastWriter(r, k, j) ==
    /\ j \in Writers(r, k)
    /\ \A h \in Writers(r, k) : h <= j

\* the elements of a list
Elems(xs) == {xs[j] : j \in 1..Len(xs)}

\* how many times x occurs in the list xs
Count(xs, x) == Cardinality({j \in 1..Len(xs) : xs[j] = x})

\* the references to f that come from code and whose caller demangles to a
\* non-empty str: the references lines 44-50 turn into a caller name
CallerRefs(f) ==
    {i \in 1..Len(f.xrefs) : f.xrefs[i].frm_code /\ Truthy(f.xrefs[i].caller)}

\* the canonical name of the caller of each such reference of each entity
CallerName ==
    [e \in Entities |->
        [i \in CallerRefs(EntityPool[e]) |->
            clean_demangled(EntityPool[e].xrefs[i].caller.val)]]

\* isApplicationCode of the specification: neither rejection rule triggers
IsApplicationCode(n) == ~IsRejectedNamespace(n) /\ ~IsRejectedMarker(n)

AllDone == \A r \in Runs : pc[r] = "done"

(***************************************************************************)
(* C1                                                                      *)
(***************************************************************************)
\* C1: every name in the Usages list of every record passes the
\* namespace/marker filter, so that with A called by application function B
\* and framework function C, the record of A lists B only.
C1_UsagesPassFilter ==
    \A r \in Runs : \A k \in DOMAIN xref_data[r] :
        \A u \in Elems(xref_data[r][k].Usages) : IsApplicationCode(u)

\* what lines 43-50 store instead: the Usages list of a record holds the
\* canonical name of every code reference to the function that wrote the
\* record whose caller demangles to a non-empty name, whether the filter
\* rejects that name or not, and holds no other name
UsagesAreAllCallers ==
    \A r \in Runs : \A k \in DOMAIN xref_data[r] :
        \E j \in Finished(r) :
            /\ IsLastWriter(r, k, j)
            /\ Elems(xref_data[r][k].Usages) =
                  {CallerName[db[order[r][j]]][i] : i \in CallerRefs(At(r, j))}

\* a finished run in which A, called by application function B and
\* framework function C, has a record that lists both, and in which the
\* record of TakeDamage lists two callers whose names contain a rejected
\* marker
C1_Witness ==
    \E r \in Runs :
        /\ pc[r] = "done"
        /\ <<71, 97, 109, 101, 58, 58, 65, 40, 105, 110, 116, 41>> (* Game::A(int) *) \in DOMAIN xref_data[r]
        /\ xref_data[r][<<71, 97, 109, 101, 58, 58, 65, 40, 105, 110, 116, 41>> (* Game::A(int) *)].Usages =
              << <<71, 97, 109, 101, 58, 58, 66, 40, 118, 111, 105, 100, 41>> (* Game::B(void) *), <<83, 121, 115, 116, 101, 109, 58, 58, 70, 111, 111, 40, 118, 111, 105, 100, 41>> (* System::Foo(void) *) >>
        /\ IsRejectedNamespace(<<83, 121, 115, 116, 101, 109, 58, 58, 70, 111, 111, 40, 118, 111, 105, 100, 41>> (* System::Foo(void) *))
        /\ <<71, 97, 109, 101, 58, 58, 80, 108, 97, 121, 101, 114, 58, 58, 84, 97, 107, 101, 68, 97, 109, 97, 103, 101, 40, 105, 110, 116, 41>> (* Game::Player::TakeDamage(int) *) \in DOMAIN xref_data[r]
        /\ xref_data[r][<<71, 97, 109, 101, 58, 58, 80, 108, 97, 121, 101, 114, 58, 58, 84, 97, 107, 101, 68, 97, 109, 97, 103, 101, 40, 105, 110, 116, 41>> (* Game::Player::TakeDamage(int) *)].Usages =
              << <<71, 97, 109, 101, 58, 58, 80, 108, 97, 121, 101, 114, 58, 58, 95, 108, 97, 109, 98, 100, 97, 95, 49, 40, 118, 111, 105, 100, 41>> (* Game::Player::_lambda_1(void) *), <<105, 110, 116, 95, 95, 99, 100, 101, 99, 108, 82, 117, 110, 40, 118, 111, 105, 100, 41>> (* int__cdeclRun(void) *) >>
        /\ IsRejectedMarker(<<71, 97, 109, 101, 58, 58, 80, 108, 97, 121, 101, 114, 58, 58, 95, 108, 97, 109, 98, 100, 97, 95, 49, 40, 118, 111, 105, 100, 41>> (* Game::Player::_lambda_1(void) *))
        /\ IsRejectedMarker(<<105, 110, 116, 95, 95, 99, 100, 101, 99, 108, 82, 117, 110, 40, 118, 111, 105, 100, 41>> (* int__cdeclRun(void) *))

(***************************************************************************)
(* C3                                                                      *)
(***************************************************************************)
\* C3, as claimed: two runs over the same database in two enumeration
\* orders end with the same mapping.
C3_OrderIndependent ==
    AllDone => xref_data[1] = xref_data[2]

\* no two functions of the database that reach line 66 share a canonical
\* name and differ in the record they store
NoConflictingCollision ==
    \A a, b \in 1..Len(db) :
        (/\ OutcomeOf[db[a]] = "insert"
         /\ OutcomeOf[db[b]] = "insert"
         /\ CanonicalOf[db[a]] = CanonicalOf[db[b]])
        => RecordOf[db[a]] = RecordOf[db[b]]

\* C3, amended: two runs over the same database in two enumeration orders
\* end with the same mapping, and dump the same mapping, provided that the
\* functions which normalise to one canonical name have the same callers;
\* otherwise the record of the function enumerated last is the one kept.
C3_OrderIndependentWithoutConflict ==
    /\ (AllDone /\ NoConflictingCollision) =>
          /\ xref_data[1] = xref_data[2]
          /\ json_file[1] = json_file[2]
    /\ \A r \in Runs : \A k \in DOMAIN xref_data[r] :
          \E j \in Finished(r) :
              IsLastWriter(r, k, j) /\ xref_data[r][k] = RecordOf[db[order[r][j]]]

\* two runs in different orders, two entries, no conflicting collision
C3_Witness ==
    /\ AllDone
    /\ order[1] # order[2]
    /\ NoConflictingCollision
    /\ Cardinality(DOMAIN xref_data[1]) >= 2
    /\ xref_data[1] = xref_data[2]

(***************************************************************************)
(* C4                                                                      *)
(***************************************************************************)
\* the addresses, in enumeration order, of the finished iterations of run r
\* in which an API call raised
RaisedSoFar(r) ==
    SelectSeq(SubSeq(order[r], 1, idx[r] - 1),
              LAMBDA a : OutcomeOf[db[a]] = "raise")

\* C4: an error raised while one candidate is processed (at the code check,
\* the symbol lookup, the demangling or the caller collection) is logged and
\* the loop goes on with the next candidate: the entries are exactly those of
\* the finished candidates that did not fail, each with the record of its
\* last writer, the failing candidate writes nothing, and the run is never
\* stuck before the dump, which it makes after the last candidate.
C4_FailureIsolation ==
    \A r \in Runs :
        /\ errors[r] = RaisedSoFar(r)
        /\ DOMAIN xref_data[r] =
              {CanonicalOf[db[order[r][j]]] :
                    j \in {h \in Finished(r) : OutcomeOf[db[order[r][h]]] = "insert"}}
        /\ \A k \in DOMAIN xref_data[r] : \A j \in Finished(r) :
              IsLastWriter(r, k, j) => xref_data[r][k] = RecordOf[db[order[r][j]]]
        /\ pc[r] = "done" =>
              /\ idx[r] = Len(db) + 1
              /\ json_file[r] = xref_data[r]
        /\ pc[r] # "done" => ENABLED RunNext(r)

\* a run whose first candidate failed in the caller collection and whose
\* second candidate has its entry in the dumped mapping
C4_Witness ==
    \E r \in Runs :
        /\ pc[r] = "done"
        /\ At(r, 1).fault = "XrefsTo"
        /\ errors[r] = <<order[r][1]>>
        /\ OutcomeOf[db[order[r][2]]] = "insert"
        /\ CanonicalOf[db[order[r][2]]] \in DOMAIN json_file[r]
        /\ CanonicalOf[db[order[r][1]]] \notin DOMAIN json_file[r]

\* every run reaches the dump (under FairSpec)
RunsTerminate == <>AllDone

(***************************************************************************)
(* C5                                                                      *)
(***************************************************************************)
\* C5: in every reachable state every record of xref_data has
\* CallCount == len(Usages), also under a key that was written twice.
C5_CallCountIsLength ==
    \A r \in Runs : \A k \in DOMAIN xref_data[r] :
        xref_data[r][k].CallCount = Len(xref_data[r][k].Usages)

\* a key written twice whose record counts a repeated caller
C5_Witness ==
    \E r \in Runs : \E k \in DOMAIN xref_data[r] :
        /\ Cardinality(Writers(r, k)) >= 2
        /\ xref_data[r][k].CallCount = 3
        /\ \E u \in Elems(xref_data[r][k].Usages) :
              Count(xref_data[r][k].Usages, u) = 2

(***************************************************************************)
(* C6                                                                      *)
(***************************************************************************)
\* the list is in non-decreasing lexicographic order
NonDecreasing(xs) ==
    \A j \in 1..(Len(xs) - 1) : ~StrLess(xs[j + 1], xs[j])

\* C6: the Usages list of every record is in non-decreasing lexicographic
\* order and holds each caller name as many times as code references of the
\* function that wrote the record carry it: nothing is removed or added.
C6_SortedPermutation ==
    \A r \in Runs : \A k \in DOMAIN xref_data[r] :
        /\ NonDecreasing(xref_data[r][k].Usages)
        /\ \E j \in Finished(r) :
              /\ IsLastWriter(r, k, j)
              /\ LET f == At(r, j)
                     collected == CallerName[db[order[r][j]]]
                 IN  /\ Len(xref_data[r][k].Usages) = Cardinality(CallerRefs(f))
                     /\ \A i \in CallerRefs(f) :
                           Count(xref_data[r][k].Usages, collected[i]) =
                              Cardinality({h \in CallerRefs(f) : collected[h] = collected[i]})

\* a record whose callers were collected out of order and with a repetition
C6_Witness ==
    \E r \in Runs : \E k \in DOMAIN xref_data[r] :
        xref_data[r][k].Usages =
            << <<71, 97, 109, 101, 58, 58, 66, 40, 118, 111, 105, 100, 41>> (* Game::B(void) *), <<71, 97, 109, 101, 58, 58, 66, 40, 118, 111, 105, 100, 41>> (* Game::B(void) *), <<71, 97, 109, 101, 58, 58, 90, 40, 118, 111, 105, 100, 41>> (* Game::Z(void) *) >>

(***************************************************************************)
(* C7                                                                      *)
(***************************************************************************)
\* the canonical names of the functions of the entities
CanonicalNames ==
    {clean_demangled(EntityPool[e].demangled.val) :
        e \in {d \in Entities : EntityPool[d].demangled.ok}}

\* those of them that start with a rejected namespace prefix or contain a
\* rejected marker
RejectedNames ==
    {k \in CanonicalNames :
        \/ \E p \in NamespacePrefixes : StartsWith(k, p)
        \/ \E p \in SubstringMarkers : Contains(k, p)}

\* the entities that are code, have a name without "::", demangle, are
\* processed without an error and whose canonical name matches neither rule
MustBeReported ==
    [e \in Entities |->
        LET f == EntityPool[e]
        IN  /\ f.code
            /\ Truthy(f.mangled)
            /\ ~Contains(f.mangled.val, <<58, 58>> (* :: *))
            /\ f.demangled.ok
            /\ f.fault = "none"
            /\ IsApplicationCode(clean_demangled(f.demangled.val))]

\* C7: no key of xref_data starts with a rejected namespace prefix or
\* contains a rejected marker; and a function that is code, has a name
\* without "::", demangles, is processed without an error and whose
\* canonical name matches neither rule has an entry once its iteration is
\* over.
C7_KeysAreApplicationCode ==
    \A r \in Runs :
        /\ \A k \in DOMAIN xref_data[r] : k \in CanonicalNames \ RejectedNames
        /\ \A j \in Finished(r) :
              MustBeReported[db[order[r][j]]]
                  => CanonicalOf[db[order[r][j]]] \in DOMAIN xref_data[r]

\* a finished run over a framework function and the representative
\* accepted function: only the latter has an entry
C7_Witness ==
    \E r \in Runs :
        /\ pc[r] = "done"
        /\ \E j \in 1..Len(db) : At(r, j).demangled = Str(<<118, 111, 105, 100, 32, 83, 121, 115, 116, 101, 109, 58, 58, 70, 111, 111, 40, 118, 111, 105, 100, 41>> (* void System::Foo(void) *))
        /\ DOMAIN xref_data[r] = {<<71, 97, 109, 101, 58, 58, 80, 108, 97, 121, 101, 114, 58, 58, 84, 97, 107, 101, 68, 97, 109, 97, 103, 101, 40, 105, 110, 116, 41>> (* Game::Player::TakeDamage(int) *)}

(***************************************************************************)
(* C8                                                                      *)
(***************************************************************************)
\* C8: json.dump is called at most once in a run, only when the for loop
\* has gone through all functions, and exactly once by the end of the run;
\* from then on xref_data stays what was dumped.
C8_SerializedOnceAtEnd ==
    \A r \in Runs :
        /\ dumps[r] <= 1
        /\ dumps[r] = 1 =>
              /\ idx[r] = Len(db) + 1
              /\ json_file[r] = xref_data[r]
        /\ pc[r] = "done" <=> dumps[r] = 1

\* a finished run in which a candidate failed and another was recorded
C8_Witness ==
    \E r \in Runs :
        /\ pc[r] = "done"
        /\ dumps[r] = 1
        /\ errors[r] # <<>>
        /\ json_file[r] # EmptyDict

\* the second half of C10 on a run: every key and every Usages element is
\* free of whitespace
ResultSetWhitespaceFree ==
    \A r \in Runs : \A k \in DOMAIN xref_data[r] :
        /\ \A j \in 1..Len(k) : k[j] \notin Whitespace
        /\ \A u \in Elems(xref_data[r][k].Usages) :
              \A j \in 1..Len(u) : u[j] \notin Whitespace

(***************************************************************************)
(* Vocabulary of the properties of clean_demangled.                        *)
(***************************************************************************)
\* s contains "TryGet" and, somewhere after it, "Array"
TryGetThenArray(s) ==
    \E a \in 1..(Len(s) - 5) : \E b \in (a + 6)..(Len(s) - 4) :
        /\ SubSeq(s, a, a + 5) = <<84, 114, 121, 71, 101, 116>> (* TryGet *)
        /\ SubSeq(s, b, b + 4) = <<65, 114, 114, 97, 121>> (* Array *)

\* the same with no line feed between the two words
TryGetThenArrayOnOneLine(s) ==
    \E a \in 1..(Len(s) - 5) : \E b \in (a + 6)..(Len(s) - 4) :
        /\ SubSeq(s, a, a + 5) = <<84, 114, 121, 71, 101, 116>> (* TryGet *)
        /\ SubSeq(s, b, b + 4) = <<65, 114, 114, 97, 121>> (* Array *)
        /\ LineFeed \notin {s[j] : j \in (a + 6)..(b - 1)}

\* the positions of s at which "::" starts
SeparatorsOf(s) ==
    {k \in 1..(Len(s) - 1) : s[k] = Colon /\ s[k + 1] = Colon}

\* step (1) of the normalisation, `blank` being the characters that count
\* as whitespace in it: when "::" occurs and the text before its first
\* occurrence contains a blank, everything up to and including the last
\* blank of that text is dropped
StepTruncate(s, blank) ==
    IF SeparatorsOf(s) = {} THEN s
    ELSE LET sep == CHOOSE k \in SeparatorsOf(s) : \A h \in SeparatorsOf(s) : k <= h
             blanks == {j \in 1..(sep - 1) : s[j] \in blank}
         IN  IF blanks = {} THEN s
             ELSE LET last == CHOOSE j \in blanks : \A h \in blanks : h <= j
                  IN  [j \in 1..(Len(s) - last) |-> s[last + j]]

\* step (2): every '&' becomes "[]&" when `matches` holds
StepArray(s, matches) ==
    IF matches THEN ReplaceChar(s, Ampersand, <<91, 93, 38>> (* []& *)) ELSE s

\* step (3): the characters of s that are not whitespace, in order
StepStrip(s) ==
    LET kept == {j \in 1..Len(s) : s[j] \notin Whitespace}
        nth(n) == CHOOSE j \in kept : Cardinality({h \in kept : h < j}) = n - 1
    IN  [n \in 1..Cardinality(kept) |-> s[nth(n)]]

(***************************************************************************)
(* C2                                                                      *)
(***************************************************************************)
\* C2, as claimed: clean_demangled(clean_demangled(s)) equals
\* clean_demangled(s) for every s.
C2_Idempotent ==
    stage = "recleaned" => recleaned = cleaned

\* C2, amended: clean_demangled(clean_demangled(s)) equals clean_demangled(s)
\* exactly when clean_demangled(s) does not both contain '&' and contain
\* "TryGet" followed later by "Array"; when it does, the second application
\* puts one more "[]" in front of every '&'.
C2_IdempotentUnlessArrayReference ==
    stage = "recleaned" =>
        IF Ampersand \in Elems(cleaned) /\ TryGetThenArray(cleaned)
        THEN recleaned = ReplaceChar(cleaned, Ampersand, <<91, 93, 38>> (* []& *)) /\ recleaned # cleaned
        ELSE recleaned = cleaned

\* a name with a return type and whitespace whose normal form is a fixed
\* point, and the TryGet...Array name whose normal form is not
C2_Witness ==
    /\ stage = "recleaned"
    /\ \/ /\ raw = ExampleReturnType
          /\ recleaned = cleaned
          /\ cleaned = <<78, 83, 58, 58, 67, 108, 97, 115, 115, 58, 58, 77, 101, 116, 104, 111, 100, 40, 105, 110, 116, 41>> (* NS::Class::Method(int) *)
       \/ /\ raw = ExampleTryGetArray
          /\ recleaned = <<78, 83, 58, 58, 84, 114, 121, 71, 101, 116, 86, 97, 108, 117, 101, 65, 114, 114, 97, 121, 40, 105, 110, 116, 91, 93, 91, 93, 38, 41>> (* NS::TryGetValueArray(int[][]&) *)

(***************************************************************************)
(* C9                                                                      *)
(***************************************************************************)
\* C9, as claimed: the result is step (1) with "whitespace" for the blank,
\* then step (2) when "TryGet" is followed later by "Array", then step (3).
C9_ThreeSteps ==
    stage # "input" =>
        LET s1 == StepTruncate(raw, Whitespace)
        IN  cleaned = StepStrip(StepArray(s1, TryGetThenArray(s1)))

\* C9, amended: the result is step (1) with the space character U+0020 as
\* the only blank, then step (2) when "TryGet" is followed later by "Array"
\* with no line feed in between, then step (3) for all whitespace; so
\* "ReturnType NS::Class::Method(int)" gives "NS::Class::Method(int)" and
\* "bool NS::TryGetValueArray(int&)" gives "NS::TryGetValueArray(int[]&)".
C9_ThreeStepsSpaceAndLine ==
    stage # "input" =>
        LET s1 == StepTruncate(raw, {Space})
        IN  /\ cleaned = StepStrip(StepArray(s1, TryGetThenArrayOnOneLine(s1)))
            /\ raw = ExampleReturnType => cleaned = <<78, 83, 58, 58, 67, 108, 97, 115, 115, 58, 58, 77, 101, 116, 104, 111, 100, 40, 105, 110, 116, 41>> (* NS::Class::Method(int) *)
            /\ raw = ExampleTryGetArray => cleaned = <<78, 83, 58, 58, 84, 114, 121, 71, 101, 116, 86, 97, 108, 117, 101, 65, 114, 114, 97, 121, 40, 105, 110, 116, 91, 93, 38, 41>> (* NS::TryGetValueArray(int[]&) *)

\* the three steps all act on the second example
C9_Witness ==
    /\ stage = "cleaned"
    /\ raw = ExampleTryGetArray
    /\ cleaned = <<78, 83, 58, 58, 84, 114, 121, 71, 101, 116, 86, 97, 108, 117, 101, 65, 114, 114, 97, 121, 40, 105, 110, 116, 91, 93, 38, 41>> (* NS::TryGetValueArray(int[]&) *)

(***************************************************************************)
(* C10                                                                     *)
(***************************************************************************)
\* C10: for every input, the empty and the one-character ones included,
\* clean_demangled returns a str (at most three times as long as its
\* argument) that contains no whitespace character.
C10_NoWhitespace ==
    /\ stage # "input" =>
          /\ Len(cleaned) <= 3 * Len(raw)
          /\ \A j \in 1..Len(cleaned) : cleaned[j] \notin Whitespace
    /\ stage = "recleaned" =>
          \A j \in 1..Len(recleaned) : recleaned[j] \notin Whitespace

\* a one-character input that is a whitespace character outside ASCII
C10_Witness ==
    /\ stage = "cleaned"
    /\ Len(raw) = 1
    /\ raw[1] \in Whitespace
    /\ raw[1] > 127
    /\ cleaned = <<>>

====
